---- MODULE Spec2Model ----
(***************************************************************************)
(* RelayConnection (packages/frontend/src/services/relay-connection.ts):   *)
(* the service that owns the phoenix socket and the user's channel.        *)
(*                                                                         *)
(* One step of the model is one run-to-completion piece of JavaScript: a   *)
(* public call up to its first suspension point, the resumption of an      *)
(* awaiting function, or one callback that the phoenix library invokes.    *)
(* Console output is kept only where it belongs to a call's result (the    *)
(* `logged` field of a send); the other console writes change no state.    *)
(* The phoenix library, the identity, the relay manager and the server are *)
(* the environment: they decide which callback arrives and with what.      *)
(***************************************************************************)
EXTENDS Naturals, Sequences, FiniteSets, TLC

VARIABLES
  identity,     \* the identity collaborator: exists(), publicKey
  socket,       \* this.socket: 0 (undefined) or the index of a Socket in sockets
  channel,      \* this.channel: 0 (undefined) or the index of a Channel in channels
  channelName,  \* this.channelName
  status,       \* this.status
  statusLevel,  \* this.statusLevel
  connected,    \* this.connected
  sockets,      \* every phoenix Socket object constructed so far
  channels,     \* every phoenix Channel object constructed so far
  task,         \* the running instance of the establishConnection drop task
  joinOks,      \* number of "ok" acknowledgments of the join delivered so far
  pings,        \* number of dispatcher.pingAll() calls
  sends,        \* the send() invocations, in call order
  delivered,    \* the "chat" events phoenix delivered on the channel, in order
  received      \* the arguments of processor.receive(), in call order


vars == <<identity, socket, channel, channelName, status, statusLevel, connected,
          sockets, channels, task, joinOks, pings, sends, delivered, received>>

(***************************************************************************)
(* Bounds of the model.                                                    *)
(***************************************************************************)
MaxSockets == 2       \* Socket objects constructed
MaxJoinOks == 1       \* "ok" acknowledgments of the join (phoenix rejoins)
MaxSends == 1         \* send() invocations
MaxDisconnects == 1   \* socket.disconnect() calls made by the channel callbacks
MaxInbound == 1       \* inbound "chat" events

\* the value of a field that was never set
Undefined == "<undefined>"

\* public keys the identity may hold (Uint8Array contents)
PublicKeys == {<<171, 205>>}
Recipients == {"user:ef01"}
Payloads == {"encryptedpayload"}
InboundMessages == {"m1", "m2"}
ServerReplies == {"reply"}
JoinErrors == {"unauthorized"}
PushAcks == {"ok", "error", "timeout"}
RelayUrl == "wss://relay/socket"

\* JavaScript values that settle a promise
JsUndefined == [kind |-> "undefined", text |-> ""]
JsString(s) == [kind |-> "string", text |-> s]
JsServerPayload(p) == [kind |-> "payload", text |-> p]
JsReason(msg) == [kind |-> "reason", text |-> msg]

\* intl.t(key): the localized text of a translation key
t(key) == "t:" \o key

HexChars == <<"0", "1", "2", "3", "4", "5", "6", "7",
              "8", "9", "a", "b", "c", "d", "e", "f">>

\* toHex of utils/string-encoding: two lower-case hex digits per byte
RECURSIVE toHex(_)
toHex(bytes) ==
  IF bytes = <<>> THEN ""
  ELSE HexChars[(Head(bytes) \div 16) + 1] \o HexChars[(Head(bytes) % 16) + 1]
       \o toHex(Tail(bytes))

\* JavaScript truthiness of an optional string
Truthy(s) == s # Undefined /\ s # ""

Identities ==
  {[exists |-> FALSE, hasKey |-> FALSE, publicKey |-> <<>>],
   [exists |-> TRUE, hasKey |-> FALSE, publicKey |-> <<>>]}
  \cup {[exists |-> TRUE, hasKey |-> TRUE, publicKey |-> k] : k \in PublicKeys}

\* An awaited getChannel() promise: how it settles, the channel it is for and,
\* when rejected, the reason.
NoPromise == [settles |-> "none", chan |-> 0, reason |-> JsUndefined]

IdleTask == [pc |-> "idle", await |-> NoPromise]

\* the fields of a new RelayConnection
InitFields ==
  /\ socket = 0
  /\ channel = 0
  /\ channelName = Undefined
  /\ status = Undefined
  /\ statusLevel = Undefined
  /\ connected = FALSE
  /\ sockets = <<>>
  /\ channels = <<>>
  /\ task = IdleTask
  /\ joinOks = 0
  /\ pings = 0
  /\ sends = <<>>
  /\ delivered = <<>>
  /\ received = <<>>

Init ==
  /\ identity \in Identities
  /\ InitFields

(***************************************************************************)
(* Helpers of the service.                                                 *)
(***************************************************************************)
updateStatus(level, msg) ==
  /\ status' = msg
  /\ statusLevel' = level

\* a channel id that ignores the key
userChannelIdEmpty == ""

userChannelId ==
  IF ~identity.hasKey THEN "" ELSE toHex(identity.publicKey)

\* a precondition that ignores the identity
canConnectAlways == TRUE

canConnect == identity.exists

\* a getChannel() that does not look at this.channel
getChannelPromiseNoMemo(sock, name) ==
  IF sock = 0
  THEN [settles |-> "rejected", chan |-> 0,
        reason |-> JsString(t("connection.errors.subscribe.notConnected"))]
  ELSE IF ~Truthy(name)
  THEN [settles |-> "rejected", chan |-> 0,
        reason |-> JsString("No Channel Name Specified")]
  ELSE [settles |-> "join", chan |-> Len(channels) + 1, reason |-> JsUndefined]

\* a getChannel() that creates the channel without looking at the socket or the
\* channel name
getChannelPromiseNoFailFast(sock, name) ==
  IF channel # 0
  THEN [settles |-> "resolved", chan |-> channel, reason |-> JsUndefined]
  ELSE [settles |-> "join", chan |-> Len(channels) + 1, reason |-> JsUndefined]

\* The promise a getChannel() call made with this.socket = sock and
\* this.channelName = name returns. Its executor runs synchronously: the promise
\* is resolved with this.channel, rejected, or left to the "ok" acknowledgment of
\* the join of the channel the call creates ("join").
getChannelPromise(sock, name) ==
  IF channel # 0
  THEN [settles |-> "resolved", chan |-> channel, reason |-> JsUndefined]
  ELSE IF sock = 0
  THEN [settles |-> "rejected", chan |-> 0,
        reason |-> JsString(t("connection.errors.subscribe.notConnected"))]
  ELSE IF ~Truthy(name)
  THEN [settles |-> "rejected", chan |-> 0,
        reason |-> JsString("No Channel Name Specified")]
  ELSE [settles |-> "join", chan |-> Len(channels) + 1, reason |-> JsUndefined]

\* socket.channel(channelName, {}) with the three handlers registered and join()
\* called. joinPromise is the state of the promise the "ok" hook of the join
\* resolves, joinResp the status of the last acknowledgment of the join.
NewChannel(sock, name) ==
  [socket |-> sock, topic |-> name, handlers |-> {"error", "close", "chat"},
   joins |-> 1, joinPromise |-> "pending", joinResp |-> "none", pushes |-> <<>>]

\* The state changes of a getChannel() call.
getChannel(sock, name) ==
  IF getChannelPromise(sock, name).settles = "join"
  THEN /\ channels' = Append(channels, NewChannel(sock, name))
       /\ channel' = Len(channels) + 1
  ELSE UNCHANGED <<channels, channel>>

\* Whether the promise an awaiter waits for has settled, and how.
Settled(await) ==
  IF await.settles = "join"
  THEN channels[await.chan].joinPromise
  ELSE await.settles

\* new Socket(url, { params: { uid } }) with onError/onClose registered and
\* connect() called
NewSocket(url, uid) ==
  [url |-> url, params |-> [uid |-> uid], handlers |-> {"error", "close"},
   connects |-> 1, disconnects |-> 0]

RECURSIVE SumDisconnects(_)
SumDisconnects(ss) ==
  IF ss = <<>> THEN 0 ELSE Head(ss).disconnects + SumDisconnects(Tail(ss))

\* a task that starts a new instance whatever is running
DroppedNever == FALSE

\* @dropTask: perform() is dropped while an instance is running
Dropped == task.pc # "idle"

(***************************************************************************)
(* connect(): establishConnection.perform(). The generator runs up to its  *)
(* first yield, the call of canConnect().                                  *)
(***************************************************************************)
connect ==
  /\ Len(sockets) < MaxSockets
  /\ IF Dropped
     THEN UNCHANGED task
     ELSE task' = [pc |-> "canConnect", await |-> NoPromise]
  /\ UNCHANGED <<identity, socket, channel, channelName, status, statusLevel,
                 connected, sockets, channels, joinOks, pings, sends,
                 delivered, received>>

(***************************************************************************)
(* establishConnection resumed with the value of canConnect(): everything  *)
(* from the precondition to the second yield, getChannel() included.       *)
(***************************************************************************)
establishConnection ==
  /\ task.pc = "canConnect"
  /\ IF ~canConnect \/ connected
     THEN /\ task' = IdleTask
          /\ UNCHANGED <<socket, channel, channelName, status, statusLevel,
                         sockets, channels>>
     ELSE LET publicKey == userChannelId
              sock == Len(sockets) + 1
              name == "user:" \o publicKey
          IN /\ updateStatus("info", t("connection.connecting"))
             /\ sockets' = Append(sockets, NewSocket(RelayUrl, publicKey))
             /\ socket' = sock
             /\ channelName' = name
             /\ getChannel(sock, name)
             /\ task' = [pc |-> "getChannel", await |-> getChannelPromise(sock, name)]
  /\ UNCHANGED <<identity, connected, joinOks, pings, sends,
                 delivered, received>>

\* The instance ends when the promise of its getChannel() call settles.
establishConnectionDone ==
  /\ task.pc = "getChannel"
  /\ Settled(task.await) # "pending"
  /\ task' = IdleTask
  /\ UNCHANGED <<identity, socket, channel, channelName, status, statusLevel,
                 connected, sockets, channels, joinOks, pings, sends,
                 delivered, received>>

(***************************************************************************)
(* The hooks of channel.join().                                            *)
(***************************************************************************)
\* a post-connect hook that forgets the presence ping
handleConnectedNoPing ==
  /\ updateStatus("info", t("connection.connected"))
  /\ pings' = pings

handleConnected ==
  /\ updateStatus("info", t("connection.connected"))
  /\ pings' = pings + 1

\* an error hook that rejects the promise of the join
handleErrorRejects(c, data) ==
  channels' = [channels EXCEPT ![c].joinResp = "error",
                               ![c].joinPromise = "rejected"]

\* console.error(data): the promise of the join is left as it is
handleError(c, data) ==
  channels' = [channels EXCEPT ![c].joinResp = "error"]

joinOk ==
  /\ joinOks < MaxJoinOks
  /\ \E c \in 1..Len(channels) :
       /\ channels[c].joins > 0
       /\ connected' = TRUE
       /\ handleConnected
       /\ channels' = [channels EXCEPT ![c].joinPromise = "resolved",
                                       ![c].joinResp = "ok"]
  /\ joinOks' = joinOks + 1
  /\ UNCHANGED <<identity, socket, channel, channelName, sockets, task,
                 sends, delivered, received>>

joinError ==
  /\ \E c \in 1..Len(channels), data \in JoinErrors :
       /\ channels[c].joins > 0
       /\ handleError(c, data)
  /\ UNCHANGED <<identity, socket, channel, channelName, status, statusLevel,
                 connected, sockets, task, joinOks, pings, sends, delivered,
                 received>>

\* console.info(intl.t('connection.status.timeout'))
joinTimeout ==
  /\ \E c \in 1..Len(channels) :
       /\ channels[c].joins > 0
       /\ channels' = [channels EXCEPT ![c].joinResp = "timeout"]
  /\ UNCHANGED <<identity, socket, channel, channelName, status, statusLevel,
                 connected, sockets, task, joinOks, pings, sends, delivered,
                 received>>

(***************************************************************************)
(* Socket callbacks.                                                       *)
(***************************************************************************)
\* an error callback that also clears connected
onSocketErrorDisconnects ==
  /\ \E s \in 1..Len(sockets) : "error" \in sockets[s].handlers
  /\ updateStatus("error", t("connection.status.socket.error"))
  /\ connected' = FALSE
  /\ UNCHANGED <<identity, socket, channel, channelName, sockets, channels, task,
                 joinOks, pings, sends, delivered, received>>

onSocketError ==
  /\ \E s \in 1..Len(sockets) : "error" \in sockets[s].handlers
  /\ updateStatus("error", t("connection.status.socket.error"))
  /\ UNCHANGED <<identity, socket, channel, channelName, connected, sockets,
                 channels, task, joinOks, pings, sends,
                 delivered, received>>

\* a close callback that tears the handles down
onSocketCloseClearsHandles ==
  /\ \E s \in 1..Len(sockets) : "close" \in sockets[s].handlers
  /\ updateStatus("info", t("connection.status.socket.close"))
  /\ connected' = FALSE
  /\ socket' = 0
  /\ channel' = 0
  /\ UNCHANGED <<identity, channelName, sockets, channels, task, joinOks, pings,
                 sends, delivered, received>>

\* a close callback that reconnects by itself
onSocketCloseReconnects ==
  /\ \E s \in 1..Len(sockets) : "close" \in sockets[s].handlers
  /\ updateStatus("info", t("connection.status.socket.close"))
  /\ connected' = FALSE
  /\ task' = IF task.pc = "idle" /\ Len(sockets) < MaxSockets
             THEN [pc |-> "canConnect", await |-> NoPromise]
             ELSE task
  /\ UNCHANGED <<identity, socket, channel, channelName, sockets, channels,
                 joinOks, pings, sends, delivered, received>>

\* a close callback that forgets the socket
onSocketCloseDropsSocket ==
  /\ \E s \in 1..Len(sockets) : "close" \in sockets[s].handlers
  /\ updateStatus("info", t("connection.status.socket.close"))
  /\ connected' = FALSE
  /\ socket' = 0
  /\ UNCHANGED <<identity, channel, channelName, sockets, channels, task,
                 joinOks, pings, sends, delivered, received>>

\* a close callback that cancels the running establishment
onSocketCloseCancelsTask ==
  /\ \E s \in 1..Len(sockets) : "close" \in sockets[s].handlers
  /\ updateStatus("info", t("connection.status.socket.close"))
  /\ connected' = FALSE
  /\ task' = IdleTask
  /\ UNCHANGED <<identity, socket, channel, channelName, sockets, channels,
                 joinOks, pings, sends, delivered, received>>

onSocketClose ==
  /\ \E s \in 1..Len(sockets) : "close" \in sockets[s].handlers
  /\ updateStatus("info", t("connection.status.socket.close"))
  /\ connected' = FALSE
  /\ UNCHANGED <<identity, socket, channel, channelName, sockets, channels, task,
                 joinOks, pings, sends, delivered, received>>

(***************************************************************************)
(* Channel callbacks.                                                      *)
(***************************************************************************)
\* a disconnect of the first socket instead of the stored one
disconnectFirstSocket ==
  IF socket # 0
  THEN sockets' = [sockets EXCEPT ![1].disconnects = @ + 1]
  ELSE UNCHANGED sockets

\* if (this.socket) this.socket.disconnect()
disconnectSocket ==
  IF socket # 0
  THEN sockets' = [sockets EXCEPT ![socket].disconnects = @ + 1]
  ELSE UNCHANGED sockets

\* a channel error callback that also clears connected
onChannelErrorClearsConnected ==
  /\ \E c \in 1..Len(channels) : "error" \in channels[c].handlers
  /\ SumDisconnects(sockets) < MaxDisconnects
  /\ disconnectSocket
  /\ connected' = FALSE
  /\ UNCHANGED <<identity, socket, channel, channelName, status, statusLevel,
                 channels, task, joinOks, pings, sends, delivered, received>>

onChannelError ==
  /\ \E c \in 1..Len(channels) : "error" \in channels[c].handlers
  /\ SumDisconnects(sockets) < MaxDisconnects
  /\ disconnectSocket
  /\ UNCHANGED <<identity, socket, channel, channelName, status, statusLevel,
                 connected, channels, task, joinOks, pings, sends,
                 delivered, received>>

onChannelClose ==
  /\ \E c \in 1..Len(channels) : "close" \in channels[c].handlers
  /\ SumDisconnects(sockets) < MaxDisconnects
  /\ disconnectSocket
  /\ UNCHANGED <<identity, socket, channel, channelName, status, statusLevel,
                 connected, channels, task, joinOks, pings, sends,
                 delivered, received>>

(***************************************************************************)
(* Inbound "chat" events.                                                  *)
(***************************************************************************)
\* a handler that forwards only while connected
handleMessageWhenConnected(data) ==
  received' = IF connected THEN Append(received, data) ELSE received

handleMessage(data) ==
  received' = Append(received, data)

chatEvent ==
  /\ Len(delivered) < MaxInbound
  /\ \E c \in 1..Len(channels) : "chat" \in channels[c].handlers
  /\ \E data \in InboundMessages :
       /\ delivered' = Append(delivered, data)
       /\ handleMessage(data)
  /\ UNCHANGED <<identity, socket, channel, channelName, status, statusLevel,
                 connected, sockets, channels, task, joinOks, pings,
                 sends>>

(***************************************************************************)
(* send(to, data): the call up to `await this.getChannel()`, the           *)
(* resumption after it, and the hooks of the push.                         *)
(***************************************************************************)
Pending == [state |-> "pending", value |-> JsUndefined]

\* const payload: ISendPayload = { to, message: data }
ISendPayload(to, data) == [to |-> to, message |-> data]

send ==
  /\ Len(sends) < MaxSends
  /\ \E to \in Recipients, data \in Payloads :
       sends' = Append(sends,
                  [to |-> to, data |-> data,
                   pc |-> "getChannel",
                   await |-> getChannelPromise(socket, channelName),
                   result |-> Pending, ack |-> "none", reply |-> "",
                   logged |-> <<>>])
  /\ getChannel(socket, channelName)
  /\ UNCHANGED <<identity, socket, channelName, status, statusLevel, connected,
                 sockets, task, joinOks, pings, delivered,
                 received>>

\* The rest of send() once the awaited promise has settled. A rejection is
\* thrown by the await and rejects the promise send() returned; a falsy channel
\* is logged; otherwise the "chat" event is pushed.
sendResume(i) ==
  /\ sends[i].pc = "getChannel"
  /\ Settled(sends[i].await) # "pending"
  /\ IF Settled(sends[i].await) = "rejected"
     THEN /\ sends' = [sends EXCEPT ![i].pc = "done",
                         ![i].result = [state |-> "rejected",
                                        value |-> sends[i].await.reason]]
          /\ UNCHANGED channels
     ELSE IF sends[i].await.chan = 0
     THEN /\ sends' = [sends EXCEPT ![i].pc = "done",
                         ![i].result = [state |-> "resolved", value |-> JsUndefined],
                         ![i].logged =
                           <<"error", t("connection.errors.send.notConnected")>>]
          /\ UNCHANGED channels
     ELSE /\ channels' = [channels EXCEPT ![sends[i].await.chan].pushes =
                            Append(@, [event |-> "chat",
                                       payload |-> ISendPayload(sends[i].to,
                                                                sends[i].data),
                                       send |-> i])]
          /\ sends' = [sends EXCEPT ![i].pc = "pushed"]

sendContinue ==
  /\ \E i \in 1..Len(sends) : sendResume(i)
  /\ UNCHANGED <<identity, socket, channel, channelName, status, statusLevel,
                 connected, sockets, task, joinOks, pings, delivered,
                 received>>

\* hooks that resolve on a timeout instead of rejecting
pushSettlesTimeoutResolves(ack, reply) ==
  IF ack = "ok" THEN [state |-> "resolved", value |-> JsServerPayload(reply)]
  ELSE IF ack = "error" THEN [state |-> "rejected", value |-> JsServerPayload(reply)]
  ELSE [state |-> "resolved", value |-> JsReason(t("models.message.errors.timeout"))]

\* How the promise of send() is settled by an acknowledgment of its push.
pushSettles(ack, reply) ==
  IF ack = "ok" THEN [state |-> "resolved", value |-> JsServerPayload(reply)]
  ELSE IF ack = "error" THEN [state |-> "rejected", value |-> JsServerPayload(reply)]
  ELSE [state |-> "rejected", value |-> JsReason(t("models.message.errors.timeout"))]

\* An acknowledgment of a push: "ok" and "error" carry the server's reply, the
\* timeout carries nothing.
pushAck ==
  /\ \E i \in 1..Len(sends), reply \in ServerReplies, ack \in PushAcks :
       /\ sends[i].pc = "pushed"
       /\ sends' = [sends EXCEPT ![i].pc = "done",
                      ![i].result = IF sends[i].result.state = "pending"
                                    THEN pushSettles(ack, reply)
                                    ELSE sends[i].result,
                      ![i].ack = ack,
                      ![i].reply = IF ack = "timeout" THEN "" ELSE reply]
  /\ UNCHANGED <<identity, socket, channel, channelName, status, statusLevel,
                 connected, sockets, channels, task, joinOks, pings,
                 delivered, received>>

Next ==
  \/ connect
  \/ establishConnection
  \/ establishConnectionDone
  \/ joinOk
  \/ joinError
  \/ joinTimeout
  \/ onSocketError
  \/ onSocketClose
  \/ onChannelError
  \/ onChannelClose
  \/ chatEvent
  \/ send
  \/ sendContinue
  \/ pushAck

Spec == Init /\ [][Next]_vars

(***************************************************************************)
(* The connection life cycle for identities over a wider set of public     *)
(* keys. The key enters the state only through establishConnection, so the *)
(* message traffic (send, push acknowledgments, inbound chat) is left out. *)
(***************************************************************************)
ManyKeys ==
  {<<171, 205>>, <<15>>, <<0>>, <<255, 16>>, <<1, 2, 3>>, <<160, 9>>}

InitKeys ==
  /\ identity \in {[exists |-> TRUE, hasKey |-> TRUE, publicKey |-> k] :
                     k \in ManyKeys}
  /\ InitFields

NextKeys ==
  \/ connect
  \/ establishConnection
  \/ establishConnectionDone
  \/ joinOk
  \/ joinError
  \/ joinTimeout
  \/ onSocketError
  \/ onSocketClose
  \/ onChannelError
  \/ onChannelClose

SpecKeys == InitKeys /\ [][NextKeys]_vars

(***************************************************************************)
(* Properties.                                                             *)
(***************************************************************************)
InFlight == task.pc # "idle"

\* C1: while an establishConnection instance is in flight every connect() call
\* is dropped: the call changes nothing, the instance is neither restarted nor
\* followed by a queued one, and the only socket and channel of the
\* establishment are the ones it creates in the step that passes the
\* precondition (one socket, at most one channel).
C1_ConnectDroppedWhileInFlight ==
  [][/\ (InFlight /\ connect) => UNCHANGED vars
     /\ (task.pc = "getChannel") =>
          /\ task'.pc \in {"getChannel", "idle"}
          /\ Len(sockets') = Len(sockets)
          /\ Len(channels') = Len(channels)
     /\ (Len(sockets') # Len(sockets)) =>
          /\ task.pc = "canConnect" /\ task'.pc = "getChannel"
          /\ Len(sockets') = Len(sockets) + 1
          /\ Len(channels') <= Len(channels) + 1]_vars

\* an establishment in flight that has created its socket and channel and waits
\* for the join, while connect() can still be called
C1_Witness ==
  /\ task.pc = "getChannel"
  /\ Settled(task.await) = "pending"
  /\ Len(sockets) = 1
  /\ Len(channels) = 1
  /\ ENABLED connect

\* C2: each "ok" acknowledgment of the join sets connected and calls
\* dispatcher.pingAll() exactly once, nothing else calls pingAll: the number of
\* pingAll calls always equals the number of "ok" acknowledgments.
C2_PingPerJoinOk ==
  /\ [](pings = joinOks)
  /\ [][/\ joinOk => (connected' /\ pings' = pings + 1 /\ joinOks' = joinOks + 1)
        /\ (pings' # pings) => joinOk]_vars

C2_Witness ==
  /\ joinOks = 1
  /\ pings = 1
  /\ connected
  /\ status = t("connection.connected")

\* the "chat" pushes made for the i-th send(), as <<channel, position>>
PushesOf(i) ==
  {e \in UNION {{<<c, k>> : k \in 1..Len(channels[c].pushes)} :
                c \in 1..Len(channels)} :
     channels[e[1]].pushes[e[2]].send = i}

ObtainedChannel(s) == s.await.settles # "rejected" /\ s.await.chan # 0

\* C3: a send(to, data) that obtained a channel pushes exactly one "chat" event
\* with payload {to, message: data}, and its promise is settled by the
\* acknowledgment of that push: resolved with the server's payload on "ok",
\* rejected with the server's payload on "error", rejected with
\* {reason: t(timeout)} on "timeout"; it stays pending until then.
C3_SendSettlesByAck ==
  \A i \in 1..Len(sends) :
    LET s == sends[i] IN
    ObtainedChannel(s) =>
      /\ s.pc = "getChannel" => (PushesOf(i) = {} /\ s.result = Pending)
      /\ s.pc \in {"pushed", "done"} =>
           /\ Cardinality(PushesOf(i)) = 1
           /\ \A e \in PushesOf(i) :
                /\ e[1] = s.await.chan
                /\ channels[e[1]].pushes[e[2]].event = "chat"
                /\ channels[e[1]].pushes[e[2]].payload = [to |-> s.to, message |-> s.data]
      /\ s.pc = "pushed" => (s.result = Pending /\ s.ack = "none")
      /\ s.pc = "done" =>
           /\ s.ack \in PushAcks
           /\ s.ack = "ok" =>
                s.result = [state |-> "resolved", value |-> JsServerPayload(s.reply)]
           /\ s.ack = "error" =>
                s.result = [state |-> "rejected", value |-> JsServerPayload(s.reply)]
           /\ s.ack = "timeout" =>
                s.result = [state |-> "rejected",
                            value |-> JsReason(t("models.message.errors.timeout"))]

\* a send on the joined channel whose push timed out
C3_Witness ==
  \E i \in 1..Len(sends) :
    /\ ObtainedChannel(sends[i])
    /\ sends[i].pc = "done"
    /\ sends[i].ack = "timeout"
    /\ sends[i].result.state = "rejected"
    /\ channels[sends[i].await.chan].joinPromise = "resolved"

\* C4: a send() called when there is neither socket nor channel returns normally
\* (its promise is not rejected), has logged the not-connected error of send
\* and has pushed nothing.
C4_SendWithoutChannelReturnsNormally ==
  \A i \in 1..Len(sends) :
    (sends[i].await.settles = "rejected" /\ sends[i].pc = "done") =>
      /\ sends[i].result.state = "resolved"
      /\ sends[i].logged = <<"error", t("connection.errors.send.notConnected")>>
      /\ PushesOf(i) = {}

\* C5: an "error" or "timeout" acknowledgment of the join settles nothing: the
\* step leaves the promise of the join, connected, the status and the ping count
\* as they were; the promise of a join leaves "pending" only by an "ok"
\* acknowledgment, which resolves it; and while it is pending connected is false
\* and no ping was dispatched.
C5_JoinFailureOnlyLogged ==
  /\ [](\A c \in 1..Len(channels) :
          channels[c].joinPromise = "pending" => (~connected /\ pings = 0))
  /\ [][/\ (joinError \/ joinTimeout) =>
             /\ Len(channels') = Len(channels)
             /\ \A c \in 1..Len(channels) :
                  channels'[c].joinPromise = channels[c].joinPromise
             /\ UNCHANGED <<connected, pings, status, statusLevel, task, socket,
                            channel>>
        /\ \A c \in 1..Len(channels) :
             (channels[c].joinPromise = "pending"
                /\ channels'[c].joinPromise # "pending") =>
               (joinOk /\ channels'[c].joinPromise = "resolved")]_vars

\* the join was answered with "error" or "timeout" and the establishment still
\* waits for its promise
C5_Witness ==
  /\ task.pc = "getChannel"
  /\ \E c \in 1..Len(channels) :
       /\ channels[c].joinResp \in {"error", "timeout"}
       /\ channels[c].joinPromise = "pending"
       /\ task.await = [settles |-> "join", chan |-> c, reason |-> JsUndefined]
  /\ ~connected

\* C6: a socket close callback, in whatever state it arrives, sets connected to
\* false and the status to the info-level socket-close message, and leaves the
\* socket handle, the channel handle, the channel name and the Socket and
\* Channel objects as they were.
C6_SocketCloseClearsConnectedOnly ==
  [][onSocketClose =>
       /\ connected' = FALSE
       /\ status' = t("connection.status.socket.close")
       /\ statusLevel' = "info"
       /\ UNCHANGED <<socket, channel, channelName, sockets, channels>>]_vars

\* the socket closed after the channel had been joined: the handles are kept
C6_Witness ==
  /\ status = t("connection.status.socket.close")
  /\ statusLevel = "info"
  /\ ~connected
  /\ joinOks > 0
  /\ socket # 0
  /\ channel # 0
  /\ channels[channel].joinPromise = "resolved"

\* C7: a socket error callback sets the status to the error-level socket-error
\* message and changes nothing else, the connected flag included.
C7_SocketErrorOnlyStatus ==
  [][onSocketError =>
       /\ status' = t("connection.status.socket.error")
       /\ statusLevel' = "error"
       /\ UNCHANGED <<identity, socket, channel, channelName, connected, sockets,
                      channels, task, joinOks, pings, sends, delivered,
                      received>>]_vars

\* a socket error arrived while connected: connected is still true
C7_Witness ==
  /\ status = t("connection.status.socket.error")
  /\ statusLevel = "error"
  /\ connected
  /\ socket # 0
  /\ channel # 0

\* the getChannel() promises that were not rejected: the one the running
\* establishment awaits and those of the send() calls
ChannelsHandedOut ==
  {task.await.chan : x \in {y \in {task} : y.pc = "getChannel"
                                           /\ y.await.settles # "rejected"}}
  \cup {sends[i].await.chan : i \in {j \in 1..Len(sends) :
                                       sends[j].await.settles # "rejected"}}

\* C8: getChannel() is memoized: at most one Channel is ever created and it is
\* joined once, this.channel is that channel and is never replaced or cleared
\* once stored, and every getChannel() promise that is not rejected is for that
\* same channel.
C8_ChannelMemoized ==
  /\ [](/\ Len(channels) <= 1
        /\ channel = Len(channels)
        /\ \A c \in 1..Len(channels) : channels[c].joins = 1
        /\ ChannelsHandedOut \subseteq {channel} \ {0})
  /\ [][channel # 0 => channel' = channel]_vars

\* a second establishment, on a second socket, was handed the channel of the
\* first one
C8_Witness ==
  /\ Len(sockets) = 2
  /\ Len(channels) = 1
  /\ task.pc = "getChannel"
  /\ task.await = [settles |-> "resolved", chan |-> 1, reason |-> JsUndefined]

\* C9: when the precondition of establishConnection is evaluated and the
\* identity does not exist or connected is true, the instance ends without any
\* effect: no socket, no channel, no join, and socket, channel, channelName,
\* status and statusLevel are unchanged.
C9_ConnectNoOp ==
  [][(establishConnection /\ (~identity.exists \/ connected)) =>
       /\ task' = IdleTask
       /\ UNCHANGED <<identity, socket, channel, channelName, status, statusLevel,
                      connected, sockets, channels, joinOks, pings, sends,
                      delivered, received>>]_vars

\* connect() was called on a connected instance: its precondition is about to be
\* evaluated with connected = true
C9_Witness ==
  /\ task.pc = "canConnect"
  /\ connected
  /\ identity.exists
  /\ Len(sockets) = 1
  /\ channel = 1

C11_GetChannelFailsFast ==
  /\ [](\A sock \in 0..MaxSockets, name \in {Undefined, "", channelName} :
          (channel = 0 /\ (sock = 0 \/ ~Truthy(name))) =>
            /\ getChannelPromise(sock, name).settles = "rejected"
            /\ getChannelPromise(sock, name).chan = 0
            /\ getChannelPromise(sock, name).reason.kind = "string")
  /\ [][(send /\ channel = 0 /\ (socket = 0 \/ ~Truthy(channelName))) =>
          /\ sends'[Len(sends')].await.settles = "rejected"
          /\ UNCHANGED <<socket, channel, channelName, sockets, channels,
                         connected, status, statusLevel, task, joinOks,
                         pings>>]_vars

\* a getChannel() made before any connect() was rejected and left no channel
C11_Witness ==
  /\ socket = 0
  /\ channel = 0
  /\ channels = <<>>
  /\ ~connected
  /\ status = Undefined
  /\ \E i \in 1..Len(sends) :
       sends[i].await =
         [settles |-> "rejected", chan |-> 0,
          reason |-> JsString(t("connection.errors.subscribe.notConnected"))]

\* the lower-case hexadecimal text of each key of ManyKeys
KeyHexTable ==
  {<<<<171, 205>>, "abcd">>, <<<<15>>, "0f">>, <<<<0>>, "00">>,
   <<<<255, 16>>, "ff10">>, <<<<1, 2, 3>>, "010203">>, <<<<160, 9>>, "a009">>}

\* C12: for every public key, once an establishment has passed the precondition
\* the stored channelName is "user:" + hex(publicKey), every socket was opened
\* with params.uid = hex(publicKey), and the channel was created under exactly
\* the stored channel name ([0xAB, 0xCD] gives "user:abcd").
C12_ChannelNameFromKey ==
  /\ identity.publicKey \in {p[1] : p \in KeyHexTable}
  /\ \A p \in KeyHexTable :
       (identity.publicKey = p[1] /\ socket # 0) =>
         /\ channelName = "user:" \o p[2]
         /\ \A s \in 1..Len(sockets) : sockets[s].params = [uid |-> p[2]]
         /\ channel # 0
         /\ channels[channel].topic = channelName

\* the establishment for the key [0xAB, 0xCD]
C12_Witness ==
  /\ identity.publicKey = <<171, 205>>
  /\ socket # 0
  /\ channelName = "user:abcd"
  /\ sockets[socket].params.uid = "abcd"
  /\ channel # 0
  /\ channels[channel].topic = "user:abcd"

\* C13: no "chat" event is pushed on a channel before the "ok" acknowledgment
\* of its join has been received: a send() made while the join is unacknowledged
\* waits for it.
C13_NoPushBeforeJoinOk ==
  \A c \in 1..Len(channels) :
    channels[c].pushes # <<>> => channels[c].joinPromise = "resolved"

\* C14 as claimed: after a socket error callback or a channel error callback
\* connected is false.
C14_ErrorCallbacksClearConnected ==
  [][(onSocketError \/ onChannelError) => connected' = FALSE]_vars

\* C14: a socket error callback and a channel error callback leave the
\* connected flag and the socket handle as they were; connected goes from true
\* to false only in a socket close callback.
C14_ErrorCallbacksKeepConnected ==
  [][/\ (onSocketError \/ onChannelError) =>
          (connected' = connected /\ socket' = socket /\ socket # 0)
     /\ (connected /\ ~connected') => onSocketClose]_vars

\* a channel error callback has called disconnect() and connected is still true
C14_Witness ==
  /\ connected
  /\ socket # 0
  /\ SumDisconnects(sockets) > 0

\* C15: the stored channel name is non-empty only if the identity has a public
\* key, and without a key no channel is created.
C15_NameOnlyWithKey ==
  /\ Truthy(channelName) => identity.hasKey
  /\ ~identity.hasKey => channels = <<>>

\* C16: a channel error callback and a channel close callback each call
\* disconnect() exactly once on the socket stored at that moment (and on none
\* when no socket is stored) and modify neither socket, channel, channelName,
\* connected nor the status; connected is cleared only by a socket close
\* callback.
C16_ChannelCallbacksDisconnectOnce ==
  [][/\ (onChannelError \/ onChannelClose) =>
          /\ socket # 0 =>
               sockets' = [sockets EXCEPT ![socket].disconnects = @ + 1]
          /\ socket = 0 => sockets' = sockets
          /\ UNCHANGED <<socket, channel, channelName, connected, status,
                         statusLevel, channels, task>>
     /\ (connected /\ ~connected') => onSocketClose]_vars

\* the channel callback ran on a second socket: disconnect() was called on the
\* stored socket, not on the one the channel was created from
C16_Witness ==
  /\ socket = 2
  /\ sockets[2].disconnects = 1
  /\ sockets[1].disconnects = 0
  /\ channels[channel].socket = 1

\* C17: nothing reconnects by itself: the socket close, channel close and
\* channel error callbacks start no establishment and create no socket, no
\* channel and no join; an establishment starts only in a connect() call, and a
\* socket is created only by an establishment so started.
C17_NoAutomaticReconnect ==
  [][/\ (onSocketClose \/ onChannelClose \/ onChannelError) =>
          /\ task' = task
          /\ Len(sockets') = Len(sockets)
          /\ Len(channels') = Len(channels)
          /\ \A c \in 1..Len(channels) : channels'[c].joins = channels[c].joins
     /\ (task.pc = "idle" /\ task'.pc # "idle") => connect
     /\ (Len(sockets') > Len(sockets)) =>
          (establishConnection /\ task.pc = "canConnect")]_vars

\* the socket closed after a completed establishment and nothing is running:
\* only a connect() call can start the next establishment
C17_Witness ==
  /\ status = t("connection.status.socket.close")
  /\ ~connected
  /\ task = IdleTask
  /\ Len(sockets) = 1
  /\ channels[1].joinPromise = "resolved"
  /\ ENABLED connect

\* C18: connected is true only when a socket handle, a channel handle and a
\* channel name are stored and the join of the stored channel was acknowledged
\* with "ok".
C18_ConnectedImpliesHandles ==
  connected =>
    /\ socket # 0
    /\ channel # 0
    /\ Truthy(channelName)
    /\ channels[channel].joinPromise = "resolved"
    /\ joinOks > 0

\* connected after socket creation, channel creation and the join
C18_Witness ==
  /\ connected
  /\ socket = 1
  /\ channel = 1
  /\ channelName = "user:abcd"
  /\ channels[1].topic = "user:abcd"
  /\ task = IdleTask

\* C19: whenever a socket and a channel are stored, the stored channel was
\* created from the stored socket.
C19_ChannelOfStoredSocket ==
  (socket # 0 /\ channel # 0) => channels[channel].socket = socket

\* C20: as long as no "ok" acknowledgment of the join has arrived (the join is
\* unacknowledged, or acknowledged with "error" or "timeout" only), the
\* establishment that made the join is still in flight, every connect() is
\* dropped, and the connection has exactly one socket, also after a socket
\* close.
C20_UnjoinedEstablishmentStaysInFlight ==
  \A c \in 1..Len(channels) :
    channels[c].joinPromise # "resolved" =>
      /\ channels[c].joinPromise = "pending"
      /\ task = [pc |-> "getChannel",
                 await |-> [settles |-> "join", chan |-> c, reason |-> JsUndefined]]
      /\ Dropped
      /\ Len(sockets) = 1
      /\ joinOks = 0

\* the join was refused and the socket closed: the establishment is still in
\* flight on the only socket
C20_Witness ==
  /\ Len(channels) = 1
  /\ channels[1].joinResp \in {"error", "timeout"}
  /\ channels[1].joinPromise = "pending"
  /\ status = t("connection.status.socket.close")
  /\ task.pc = "getChannel"
  /\ Len(sockets) = 1

====
